---- MODULE Spec2Model ----
(***************************************************************************)
(* certbot-dns-hostinger: the DNS-01 authenticator (Authenticator) and the *)
(* Hostinger client wrapper (_HostingerClient) of                          *)
(* certbot_dns_hostinger/_internal/dns_hostinger.py.                       *)
(*                                                                         *)
(* A string is a sequence of one-character strings, so that split, join,   *)
(* endswith and slicing are computed character by character as Python      *)
(* computes them.  The provider (the Hostinger DNS API) is the             *)
(* environment: each of its calls either succeeds or raises.               *)
(***************************************************************************)
EXTENDS Integers, Sequences, FiniteSets, Bags, TLC

(***************************************************************************)
(* Bounds of the model.                                                    *)
(***************************************************************************)
\* the account at the provider holds at most this many records
MaxRecords == 2
\* the longest domain drawn in SpecZone
MaxFqdnLen == 7
\* the longest domain and the longest record name drawn in SpecNames
MaxDomainLen == 3
MaxNameLen == 5

(***************************************************************************)
(* Program constants.                                                      *)
(***************************************************************************)
\* Authenticator.ttl
ttl == 60
\* the ttl the callers of _HostingerClient pass directly (tests' test_ttl)
test_ttl == 300

(***************************************************************************)
(* Strings.                                                                *)
(***************************************************************************)
Dot == "."

RECURSIVE StringsOfLen(_, _)
StringsOfLen(chars, n) ==
    IF n = 0 THEN {<<>>}
    ELSE {Append(s, c) : s \in StringsOfLen(chars, n - 1), c \in chars}

RECURSIVE StringsUpTo(_, _)
StringsUpTo(chars, n) ==
    IF n = 0 THEN {<<>>} ELSE StringsOfLen(chars, n) \cup StringsUpTo(chars, n - 1)

\* str.split("."): the labels between the dots, empty labels included
RECURSIVE split(_)
split(s) ==
    IF \A i \in 1..Len(s) : s[i] # Dot THEN <<s>>
    ELSE LET i == CHOOSE k \in 1..Len(s) :
                      s[k] = Dot /\ \A j \in 1..(k - 1) : s[j] # Dot
         IN  <<SubSeq(s, 1, i - 1)>> \o split(SubSeq(s, i + 1, Len(s)))

\* ".".join(parts)
RECURSIVE join(_)
join(parts) ==
    IF Len(parts) = 0 THEN <<>>
    ELSE IF Len(parts) = 1 THEN parts[1]
    ELSE parts[1] \o <<Dot>> \o join(Tail(parts))

\* s.endswith(suffix)
endswith(s, suffix) ==
    /\ Len(suffix) <= Len(s)
    /\ SubSeq(s, Len(s) - Len(suffix) + 1, Len(s)) = suffix

\* s[:-n] for n >= 1
drop_last(s, n) == IF n >= Len(s) THEN <<>> ELSE SubSeq(s, 1, Len(s) - n)

\* a slip in the slice: parts[:2]
first_two(parts) == IF Len(parts) <= 2 THEN parts ELSE SubSeq(parts, 1, 2)

\* parts[-2:]
last_two(parts) ==
    IF Len(parts) <= 2 THEN parts ELSE SubSeq(parts, Len(parts) - 1, Len(parts))

(***************************************************************************)
(* _HostingerClient: the pure computations.                                *)
(***************************************************************************)
\* _get_root_domain(domain)
_get_root_domain(domain) ==
    LET parts == split(domain)
    IN  IF Len(parts) >= 2 THEN join(last_two(parts)) ELSE domain

\* add_txt_record without its elif branch for the apex
add_subdomain_no_apex(record_name, root_domain) ==
    IF endswith(record_name, <<Dot>> \o root_domain)
    THEN drop_last(record_name, Len(<<Dot>> \o root_domain))
    ELSE record_name

\* the relative name computed inside add_txt_record
add_subdomain(record_name, root_domain) ==
    IF endswith(record_name, <<Dot>> \o root_domain)
    THEN drop_last(record_name, Len(<<Dot>> \o root_domain))
    ELSE IF record_name = root_domain THEN <<"@">>
    ELSE record_name

\* del_txt_record slicing off the zone but not the dot before it
del_subdomain_keep_dot(record_name, root_domain) ==
    IF endswith(record_name, <<Dot>> \o root_domain)
    THEN drop_last(record_name, Len(root_domain))
    ELSE IF record_name = root_domain THEN <<"@">>
    ELSE record_name

\* the relative name computed inside del_txt_record
del_subdomain(record_name, root_domain) ==
    IF endswith(record_name, <<Dot>> \o root_domain)
    THEN drop_last(record_name, Len(<<Dot>> \o root_domain))
    ELSE IF record_name = root_domain THEN <<"@">>
    ELSE record_name

\* a filter on the name alone
existing_acme_by_name(zone_records, subdomain) ==
    {z \in zone_records : z.name = subdomain}

\* a filter that never finds an existing record
existing_acme_none(zone_records, subdomain) == {}

\* existing_acme = [z for z in zone_records if z.name == subdomain and z.type == "TXT"]
existing_acme_of(zone_records, subdomain) ==
    {z \in zone_records : z.name = subdomain /\ z.type = "TXT"}

\* a conflict delete whose filter names another record type
add_delete_request_wrong_type(subdomain) ==
    [filters |-> <<[name |-> subdomain, type |-> "A"]>>]

\* DNSV1ZoneDestroyRequest(filters=[DNSV1ZoneDestroyRequestFiltersInner(name, "TXT")])
\* as add_txt_record builds it
add_delete_request(subdomain) ==
    [filters |-> <<[name |-> subdomain, type |-> "TXT"]>>]

\* a delete of del_txt_record with a second filter for the A records at the name
del_delete_request_two_filters(subdomain) ==
    [filters |-> <<[name |-> subdomain, type |-> "TXT"], [name |-> subdomain, type |-> "A"]>>]

\* a delete of del_txt_record whose filter names another record type
del_delete_request_wrong_type(subdomain) ==
    [filters |-> <<[name |-> subdomain, type |-> "A"]>>]

\* the same request as del_txt_record builds it
del_delete_request(subdomain) ==
    [filters |-> <<[name |-> subdomain, type |-> "TXT"]>>]

\* the update request with overwrite=True
update_request_overwrite(subdomain, record_content, record_ttl) ==
    [zone |-> <<[name |-> subdomain, type |-> "TXT", ttl |-> record_ttl,
                 records |-> <<[content |-> record_content]>>]>>,
     overwrite |-> TRUE]

\* a request that always carries the ttl of the Authenticator
update_request_default_ttl(subdomain, record_content, record_ttl) ==
    [zone |-> <<[name |-> subdomain, type |-> "TXT", ttl |-> ttl,
                 records |-> <<[content |-> record_content]>>]>>,
     overwrite |-> FALSE]

\* DNSV1ZoneUpdateRequest(zone=[new_zone], overwrite=False)
update_request(subdomain, record_content, record_ttl) ==
    [zone |-> <<[name |-> subdomain, type |-> "TXT", ttl |-> record_ttl,
                 records |-> <<[content |-> record_content]>>]>>,
     overwrite |-> FALSE]

(***************************************************************************)
(* The exception handlers of the two operations.  An exception is the      *)
(* sequence of the types along its __cause__ chain, outermost first.       *)
(***************************************************************************)
\* add_txt_record re-raising the exception as it is
add_txt_record_reraise(e) == [kind |-> "raised", exc |-> e]

\* add_txt_record logging the exception and returning
add_txt_record_swallow(e) == [kind |-> "returned", exc |-> <<>>]

\* add_txt_record: except Exception as e: raise errors.PluginError(msg) from e
add_txt_record_except(e) == [kind |-> "raised", exc |-> <<"PluginError">> \o e]

\* del_txt_record wrapping and raising as add_txt_record does
del_txt_record_raise(e) == [kind |-> "raised", exc |-> <<"PluginError">> \o e]

\* del_txt_record: except Exception as e: logger.warning(...)
del_txt_record_except(e) == [kind |-> "returned", exc |-> <<>>]

\* a conflict delete whose failure ends the operation
abort_after_delete_error == "idle"

\* a handler of the inner try that issues the delete again
retry_delete_error == "delete_existing"

\* the inner handler of add_txt_record's conflict delete:
\* except Exception as delete_error: logger.warning(...), then step 3 follows
after_delete_error == "update_dns_records"

\* _get_api_client: except ImportError as e: raise errors.PluginError(msg) from e
import_error_of_api_client == <<"PluginError", "ImportError">>

\* a validation that only rejects a missing token
credentials_valid_not_none(api_token) == api_token # "None"

\* _validate_credentials: if not api_token: raise errors.PluginError
\* ("None" is the token of a file that does not set it)
credentials_valid(api_token) == api_token \notin {"None", ""}

\* a setup that assigns the credentials before validating them
credentials_assigned_unvalidated(old, api_token) == api_token

\* _setup_credentials: self.credentials is assigned what _configure_credentials
\* returns, which raises instead when the validation fails
credentials_after_setup(old, api_token) ==
    IF credentials_valid(api_token) THEN api_token ELSE old

\* a _get_hostinger_client that does not look at the credentials
plugin_prepared_always(creds) == TRUE

\* _get_hostinger_client: if not self.credentials: raise errors.Error
plugin_prepared(creds) == creds # "None"

(***************************************************************************)
(* The provider: the zones of the account and the three calls of the DNS   *)
(* API.  A zone is a bag of records (name, type, content, ttl).            *)
(***************************************************************************)
matches(r, filters) ==
    \E i \in 1..Len(filters) : r.name = filters[i].name /\ r.type = filters[i].type

\* deleteRecords(zone, filter): removes every record a filter matches
provider_delete(records, request) ==
    [r \in {x \in DOMAIN records : ~matches(x, request.filters)} |-> records[r]]

\* the records one entry of an update request describes
entry_records(e) ==
    {[name |-> e.name, type |-> e.type, content |-> e.records[i].content, ttl |-> e.ttl]
        : i \in 1..Len(e.records)}

\* createOrUpdateRecords(zone, request): with overwrite the records of the same
\* name and type are replaced, without it the new records are added
provider_update(records, request) ==
    LET e    == request.zone[1]
        kept == IF request.overwrite
                THEN provider_delete(records, [filters |-> <<[name |-> e.name, type |-> e.type]>>])
                ELSE records
    IN  kept (+) SetToBag(entry_records(e))

(***************************************************************************)
(* The inputs of the operational specification.                            *)
(***************************************************************************)
\* "sso.bbdevs.com" and "localhost"
Domains == { <<"s", ".", "b", ".", "c">>, <<"l">> }

\* "_acme-challenge.sso.bbdevs.com" and "bbdevs.com"
RecordNames == { <<"x", ".", "s", ".", "b", ".", "c">>, <<"b", ".", "c">> }

Contents == {"t1", "t2"}
Tokens == {"None", "", "tok"}
Zones == {_get_root_domain(d) : d \in Domains}

Rec(n, t, c, l) == [name |-> n, type |-> t, content |-> c, ttl |-> l]

\* the number of records of the whole account
AccountSize(d) ==
    LET RECURSIVE Sum(_)
        Sum(zs) == IF zs = {} THEN 0
                   ELSE LET z == CHOOSE y \in zs : TRUE
                        IN  BagCardinality(d[z]) + Sum(zs \ {z})
    IN  Sum(DOMAIN d)

\* the zones of the account before the plugin runs: empty, an address record at
\* the apex, or a challenge record left by an earlier run
InitialDns ==
    LET bc == <<"b", ".", "c">>
    IN  { [z \in Zones |-> EmptyBag],
          [z \in Zones |-> IF z = bc THEN SetToBag({Rec(<<"@">>, "A", "ip", test_ttl)})
                           ELSE EmptyBag],
          [z \in Zones |-> IF z = bc
                           THEN SetToBag({Rec(<<"x", ".", "s">>, "TXT", "t1", test_ttl)})
                           ELSE EmptyBag] }

(***************************************************************************)
(* State.                                                                  *)
(***************************************************************************)
VARIABLES
    credentials,     \* Authenticator.credentials: "None" or the loaded api token
    client,          \* the _HostingerClient in use: [made, api_token, _api_client]
    dns,             \* the provider: zone -> bag of records
    pc,              \* the position of the running operation, "idle" between operations
    op,              \* the operation last started
    entry,           \* who started it: "_perform", "_cleanup", "direct", "setup"
    request,         \* the arguments its caller gave
    domain, record_name, record_content, record_ttl,   \* its arguments
    root_domain, subdomain, zone_records, existing_acme,   \* its locals
    calls,           \* the provider calls it has issued, in order
    outcome,         \* how it ended: [kind, exc]
    dns_before,      \* history: the provider's zones when the operation started
    repeated,        \* history: "no", or how the add_txt_record with the same
                     \* arguments that came right before this operation ended
    created          \* history: whether this del_txt_record comes right after an
                     \* add_txt_record with the same domain, record name and
                     \* content that returned, and the zones before that one

vars == <<credentials, client, dns, pc, op, entry, request, domain, record_name, record_content,
          record_ttl, root_domain, subdomain, zone_records, existing_acme, calls, outcome,
          dns_before, repeated, created>>

\* no _HostingerClient constructed yet
NoClient == [made |-> FALSE, api_token |-> "", _api_client |-> "None", built |-> 0]
\* _HostingerClient.__init__(api_token); built counts the DNSZoneApi objects the
\* client has constructed
NewClient(api_token) ==
    [made |-> TRUE, api_token |-> api_token, _api_client |-> "None", built |-> 0]

\* a test of the cache that always finds it empty
api_client_never_cached(c) == FALSE

\* _get_api_client: if self._api_client is None (negated)
api_client_cached(c) == c._api_client # "None"

\* a failed construction that leaves the ApiClient it got as far as in place
api_client_half_built(c) == [c EXCEPT !._api_client = "ApiClient"]

\* _get_api_client, except ImportError: nothing was assigned to self._api_client
api_client_after_import_error(c) == c

\* a _get_hostinger_client that keeps the _HostingerClient of an earlier call
handler_client_kept(creds, current) == IF current.made THEN current ELSE NewClient(creds)

\* _get_hostinger_client: return _HostingerClient(self.credentials.conf("api-token"))
handler_client(creds, current) == NewClient(creds)

\* _perform passing the ttl of the callers of the tests
perform_call_test_ttl(d, vn, v) == <<d, vn, v, test_ttl>>

\* _perform: add_txt_record(domain, validation_name, validation, self.ttl)
perform_call(d, vn, v) == <<d, vn, v, ttl>>

\* _cleanup: del_txt_record(domain, validation_name, validation)
cleanup_call(d, vn, v) == <<d, vn, v, 0>>

NoOutcome == [kind |-> "none", exc |-> <<>>]
Returned == [kind |-> "returned", exc |-> <<>>]

Init ==
    /\ credentials = "None"
    /\ client = NoClient
    /\ dns \in InitialDns
    /\ pc = "idle"
    /\ op = "none"
    /\ entry = "none"
    /\ request = <<>>
    /\ domain = <<>> /\ record_name = <<>> /\ record_content = "" /\ record_ttl = 0
    /\ root_domain = <<>> /\ subdomain = <<>> /\ zone_records = {} /\ existing_acme = {}
    /\ calls = <<>>
    /\ outcome = NoOutcome
    /\ dns_before = dns
    /\ repeated = "no"
    /\ created = [done |-> FALSE, dns |-> dns]

\* the start of an operation: arguments bound, locals and log cleared
Begin(o, en, d, rn, c, t) ==
    /\ op' = o /\ entry' = en
    /\ domain' = d /\ record_name' = rn /\ record_content' = c /\ record_ttl' = t
    /\ root_domain' = <<>> /\ subdomain' = <<>> /\ zone_records' = {} /\ existing_acme' = {}
    /\ calls' = <<>>
    /\ dns_before' = dns
    /\ repeated' = IF /\ o = "add_txt_record" /\ op = "add_txt_record"
                      /\ <<d, rn, c, t>> = <<domain, record_name, record_content, record_ttl>>
                   THEN outcome.kind ELSE "no"
    /\ created' = IF /\ o = "del_txt_record" /\ op = "add_txt_record"
                     /\ outcome.kind = "returned"
                     /\ <<d, rn, c>> = <<domain, record_name, record_content>>
                  THEN [done |-> TRUE, dns |-> dns_before]
                  ELSE [done |-> FALSE, dns |-> dns]

\* the end of an operation
End(o) == pc' = "idle" /\ outcome' = o

\* the handler of the running operation applied to exception e
Except(e) == IF op = "add_txt_record" THEN add_txt_record_except(e)
             ELSE del_txt_record_except(e)

Call(api, req, ok) ==
    calls' = Append(calls, [api |-> api, zone |-> root_domain, request |-> req, ok |-> ok])

(***************************************************************************)
(* Authenticator.                                                          *)
(***************************************************************************)
\* _setup_credentials with _validate_credentials: the token of the credentials
\* file is accepted or a PluginError is raised before the assignment
_setup_credentials ==
    /\ pc = "idle"
    /\ \E api_token \in Tokens :
        /\ Begin("_setup_credentials", "setup", <<>>, <<>>, "", 0)
        /\ request' = <<api_token>>
        /\ credentials' = credentials_after_setup(credentials, api_token)
        /\ IF credentials_valid(api_token)
           THEN End(Returned)
           ELSE End([kind |-> "raised", exc |-> <<"PluginError">>])
        /\ UNCHANGED <<client, dns>>

\* _get_hostinger_client as _perform and _cleanup use it: a precondition error
\* without credentials, a new _HostingerClient (its _api_client None) with them
EnterClient(en, o, d, rn, c, t) ==
    /\ pc = "idle"
    /\ Begin(IF plugin_prepared(credentials) THEN o ELSE en, en, d, rn, c, t)
    /\ IF plugin_prepared(credentials)
       THEN /\ client' = handler_client(credentials, client)
            /\ pc' = "get_api_client"
            /\ outcome' = NoOutcome
       ELSE /\ client' = client
            /\ End([kind |-> "raised", exc |-> <<"Error">>])
    /\ UNCHANGED <<credentials, dns>>

\* _perform(domain, validation_name, validation)
_perform ==
    \E d \in Domains, vn \in RecordNames, v \in Contents :
        /\ request' = <<d, vn, v>>
        /\ EnterClient("_perform", "add_txt_record", perform_call(d, vn, v)[1],
                       perform_call(d, vn, v)[2], perform_call(d, vn, v)[3],
                       perform_call(d, vn, v)[4])

\* _cleanup(domain, validation_name, validation)
_cleanup ==
    \E d \in Domains, vn \in RecordNames, v \in Contents :
        /\ request' = <<d, vn, v>>
        /\ EnterClient("_cleanup", "del_txt_record", cleanup_call(d, vn, v)[1],
                       cleanup_call(d, vn, v)[2], cleanup_call(d, vn, v)[3],
                       cleanup_call(d, vn, v)[4])

(***************************************************************************)
(* _HostingerClient.                                                       *)
(***************************************************************************)
\* _HostingerClient(api_token), constructed by a caller other than the Authenticator
HostingerClient_init ==
    /\ pc = "idle"
    /\ ~client.made
    /\ client' = NewClient("tok")
    /\ UNCHANGED <<credentials, dns, pc, op, entry, request, domain, record_name, record_content,
                   record_ttl, root_domain, subdomain, zone_records, existing_acme, calls,
                   outcome, dns_before, repeated, created>>

\* add_txt_record(domain, record_name, record_content, ttl) called on the client
add_txt_record ==
    /\ pc = "idle"
    /\ client.made
    /\ \E d \in Domains, rn \in RecordNames, c \in Contents :
        /\ request' = <<d, rn, c, test_ttl>>
        /\ Begin("add_txt_record", "direct", d, rn, c, test_ttl)
    /\ pc' = "get_api_client"
    /\ outcome' = NoOutcome
    /\ UNCHANGED <<credentials, client, dns>>

\* del_txt_record(domain, record_name, _record_content) called on the client
del_txt_record ==
    /\ pc = "idle"
    /\ client.made
    /\ \E d \in Domains, rn \in RecordNames, c \in Contents :
        /\ request' = <<d, rn, c>>
        /\ Begin("del_txt_record", "direct", d, rn, c, 0)
    /\ pc' = "get_api_client"
    /\ outcome' = NoOutcome
    /\ UNCHANGED <<credentials, client, dns>>

args == <<op, entry, request, domain, record_name, record_content, record_ttl, dns_before,
          repeated, created>>
locals == <<root_domain, subdomain, zone_records, existing_acme>>

\* _get_api_client: the cached client, or the import and construction of one
_get_api_client ==
    /\ pc = "get_api_client"
    /\ \/ /\ api_client_cached(client)
          /\ pc' = "resolve_names"
          /\ UNCHANGED <<client, outcome>>
       \/ /\ ~api_client_cached(client)
          /\ client' = [client EXCEPT !._api_client = "DNSZoneApi", !.built = @ + 1]
          /\ pc' = "resolve_names"
          /\ UNCHANGED outcome
       \/ /\ ~api_client_cached(client)
          /\ End(Except(import_error_of_api_client))
          /\ client' = api_client_after_import_error(client)
    /\ UNCHANGED <<credentials, dns, args, locals, calls>>

\* root_domain = self._get_root_domain(domain) and the if/elif/else giving subdomain
resolve_names ==
    /\ pc = "resolve_names"
    /\ root_domain' = _get_root_domain(domain)
    /\ subdomain' = IF op = "add_txt_record"
                    THEN add_subdomain(record_name, _get_root_domain(domain))
                    ELSE del_subdomain(record_name, _get_root_domain(domain))
    /\ pc' = "import_models"
    /\ UNCHANGED <<credentials, client, dns, args, zone_records, existing_acme, calls, outcome>>

\* from hostinger_api.models import ...
import_models ==
    /\ pc = "import_models"
    /\ \/ /\ pc' = IF op = "add_txt_record" THEN "get_dns_records" ELSE "delete_dns_records"
          /\ UNCHANGED outcome
       \/ End(Except(<<"ImportError">>))
    /\ UNCHANGED <<credentials, client, dns, args, locals, calls>>

\* step 1 of add_txt_record: api_client.get_dns_records_v1(root_domain) and the filter
get_dns_records ==
    /\ pc = "get_dns_records"
    /\ \/ /\ Call("get_dns_records_v1", [filters |-> <<>>], TRUE)
          /\ zone_records' = BagToSet(dns[root_domain])
          /\ existing_acme' = existing_acme_of(BagToSet(dns[root_domain]), subdomain)
          /\ pc' = IF existing_acme_of(BagToSet(dns[root_domain]), subdomain) # {}
                   THEN "delete_existing" ELSE "update_dns_records"
          /\ UNCHANGED outcome
       \/ /\ Call("get_dns_records_v1", [filters |-> <<>>], FALSE)
          /\ End(Except(<<"ApiException">>))
          /\ UNCHANGED <<zone_records, existing_acme>>
    /\ UNCHANGED <<credentials, client, dns, args, root_domain, subdomain>>

\* step 2 of add_txt_record: the delete of the existing records, its failure logged
delete_existing ==
    /\ pc = "delete_existing"
    /\ \/ /\ Call("delete_dns_records_v1", add_delete_request(subdomain), TRUE)
          /\ dns' = [dns EXCEPT ![root_domain] =
                        provider_delete(@, add_delete_request(subdomain))]
          /\ pc' = "update_dns_records"
       \/ /\ Call("delete_dns_records_v1", add_delete_request(subdomain), FALSE)
          /\ pc' = after_delete_error
          /\ UNCHANGED dns
    /\ UNCHANGED <<credentials, client, args, locals, outcome>>

\* step 3 of add_txt_record: api_client.update_dns_records_v1(root_domain, update_request)
update_dns_records ==
    /\ pc = "update_dns_records"
    /\ LET req == update_request(subdomain, record_content, record_ttl)
       IN  \/ /\ AccountSize(dns) < MaxRecords
              /\ Call("update_dns_records_v1", req, TRUE)
              /\ dns' = [dns EXCEPT ![root_domain] = provider_update(@, req)]
              /\ End(Returned)
           \/ /\ Call("update_dns_records_v1", req, FALSE)
              /\ End(Except(<<"ApiException">>))
              /\ UNCHANGED dns
    /\ UNCHANGED <<credentials, client, args, locals>>

\* del_txt_record: api_client.delete_dns_records_v1(root_domain, delete_request)
delete_dns_records ==
    /\ pc = "delete_dns_records"
    /\ \/ /\ Call("delete_dns_records_v1", del_delete_request(subdomain), TRUE)
          /\ dns' = [dns EXCEPT ![root_domain] =
                        provider_delete(@, del_delete_request(subdomain))]
          /\ End(Returned)
       \/ /\ Call("delete_dns_records_v1", del_delete_request(subdomain), FALSE)
          /\ End(Except(<<"ApiException">>))
          /\ UNCHANGED dns
    /\ UNCHANGED <<credentials, client, args, locals>>

Next ==
    \/ _setup_credentials
    \/ _perform
    \/ _cleanup
    \/ HostingerClient_init
    \/ add_txt_record
    \/ del_txt_record
    \/ _get_api_client
    \/ resolve_names
    \/ import_models
    \/ get_dns_records
    \/ delete_existing
    \/ update_dns_records
    \/ delete_dns_records

Spec == Init /\ [][Next]_vars

(***************************************************************************)
(* The name computations on their own: the operation stands right after    *)
(* _get_api_client, with arbitrary strings as its arguments.               *)
(***************************************************************************)
InitAt(d, rn, o) ==
    /\ credentials = "tok"
    /\ client = [NewClient("tok") EXCEPT !._api_client = "DNSZoneApi", !.built = 1]
    /\ dns = [z \in Zones |-> EmptyBag]
    /\ pc = "resolve_names"
    /\ op = o
    /\ entry = "direct"
    /\ request = <<d, rn, "t1", test_ttl>>
    /\ domain = d /\ record_name = rn /\ record_content = "t1" /\ record_ttl = test_ttl
    /\ root_domain = <<>> /\ subdomain = <<>> /\ zone_records = {} /\ existing_acme = {}
    /\ calls = <<>>
    /\ outcome = NoOutcome
    /\ dns_before = dns
    /\ repeated = "no"
    /\ created = [done |-> FALSE, dns |-> dns]

\* every domain up to MaxFqdnLen, with the validation name the ACME client
\* derives from it ("_acme-challenge." + domain)
InitZone ==
    \E d \in StringsUpTo({"a", "b", Dot}, MaxFqdnLen), o \in {"add_txt_record", "del_txt_record"} :
        InitAt(d, <<"x", Dot>> \o d, o)

\* every domain up to MaxDomainLen with every record name up to MaxNameLen
InitNames ==
    \E d \in StringsUpTo({"a", Dot}, MaxDomainLen),
       rn \in StringsUpTo({"a", Dot, "@"}, MaxNameLen),
       o \in {"add_txt_record", "del_txt_record"} :
        InitAt(d, rn, o)

NextNames == resolve_names

SpecZone == InitZone /\ [][NextNames]_vars
SpecNames == InitNames /\ [][NextNames]_vars

(***************************************************************************)
(* Vocabulary of the properties.                                           *)
(***************************************************************************)
AddDone == pc = "idle" /\ op = "add_txt_record"
DelDone == pc = "idle" /\ op = "del_txt_record"

Gets == {i \in 1..Len(calls) : calls[i].api = "get_dns_records_v1"}
Deletes == {i \in 1..Len(calls) : calls[i].api = "delete_dns_records_v1"}
Updates == {i \in 1..Len(calls) : calls[i].api = "update_dns_records_v1"}
Failed(is) == {i \in is : ~calls[i].ok}

\* the listing succeeded and holds a TXT record at the relative name
Conflict == \E z \in zone_records : z.name = subdomain /\ z.type = "TXT"

ProviderError == [kind |-> "raised", exc |-> <<"PluginError", "ApiException">>]

\* the zone and the relative name an add_txt_record with the current arguments targets
TargetZone == _get_root_domain(domain)
TargetName == add_subdomain(record_name, TargetZone)

\* the TXT records of zone z at name n, and how many there are
TxtAt(z, n) == {r \in DOMAIN dns[z] : r.name = n /\ r.type = "TXT"}
TxtCount(z, n) == BagCardinality([r \in TxtAt(z, n) |-> dns[z][r]])

Dots(s) == Cardinality({i \in 1..Len(s) : s[i] = Dot})

(***************************************************************************)
(* C1..C7: add_txt_record and del_txt_record against the provider (Spec).  *)
(***************************************************************************)
\* C1: when the listing holds a TXT record at the relative name, exactly one
\* delete is issued and it precedes the update; whenever the listing succeeds the
\* update is issued, conflict or not.
C1_ConflictRemoval ==
    op = "add_txt_record" =>
        /\ \A j \in Updates :
              Conflict => Cardinality({i \in Deletes : i < j}) = 1
        /\ (pc = "idle" /\ Gets # {} /\ Failed(Gets) = {}) =>
              /\ Cardinality(Updates) = 1
              /\ Conflict => Cardinality(Deletes) = 1
              /\ ~Conflict => Deletes = {}

C1_Witness ==
    /\ AddDone /\ Conflict
    /\ Len(calls) = 3
    /\ calls[2].api = "delete_dns_records_v1" /\ calls[2].ok
    /\ calls[3].api = "update_dns_records_v1" /\ calls[3].ok

\* C2: every update request issued carries overwrite = FALSE.
C2_OverwriteFalse ==
    \A i \in Updates : calls[i].request.overwrite = FALSE

C2_Witness == AddDone /\ Updates # {} /\ Failed(Updates) = {} /\ outcome.kind = "returned"

\* C3: a failed listing ends add_txt_record with a PluginError caused by the
\* provider's exception; no delete and no update is issued, the zones are as before.
C3_ListFailureFatal ==
    (AddDone /\ Failed(Gets) # {}) =>
        /\ outcome = ProviderError
        /\ Deletes = {} /\ Updates = {}
        /\ dns = dns_before

C3_Witness ==
    /\ AddDone /\ Failed(Gets) # {}
    /\ \E z \in Zones : TxtAt(z, TargetName) # {}

\* C4: del_txt_record returns normally whatever fails inside it, so _cleanup with
\* credentials loaded never raises.
C4_DeleteNeverRaises ==
    /\ DelDone => outcome = Returned
    /\ (pc = "idle" /\ entry = "_cleanup" /\ plugin_prepared(credentials)) =>
          outcome.kind = "returned"

C4_Witness == DelDone /\ entry = "_cleanup" /\ Failed(Deletes) # {}

\* C5: a failed conflict delete does not end add_txt_record: the update is issued
\* once, after it, and the operation returns exactly when that update succeeds.
C5_DeleteBestEffort ==
    (AddDone /\ Failed(Deletes) # {}) =>
        \E j \in Updates :
            /\ Updates = {j}
            /\ \A i \in Deletes : i < j
            /\ outcome.kind = "returned" <=> calls[j].ok
            /\ outcome.kind = "raised" <=> ~calls[j].ok

C5_Witness == AddDone /\ Failed(Deletes) # {} /\ outcome.kind = "returned"

\* C6: a failed update ends add_txt_record with a PluginError caused by the
\* provider's exception; it returns normally only after a successful listing and
\* a successful update.
C6_CreateFailureFatal ==
    AddDone =>
        /\ Failed(Updates) # {} => outcome = ProviderError
        /\ outcome.kind = "returned" =>
              /\ Gets # {} /\ Failed(Gets) = {}
              /\ Updates # {} /\ Failed(Updates) = {}

C6_Witness == AddDone /\ Failed(Updates) # {} /\ Deletes # {} /\ Failed(Deletes) = {}

\* exactly one TXT record at the target, and it holds record_content
OneLatestRecord ==
    /\ TxtCount(TargetZone, TargetName) = 1
    /\ \A r \in TxtAt(TargetZone, TargetName) : r.content = record_content

\* every provider call of the operation succeeded and it returned
AllCallsOk == outcome.kind = "returned" /\ Failed(1..Len(calls)) = {}

C9_RelativeName ==
    pc = "import_models" =>
        LET k == Len(record_name) - Len(root_domain) - 1
        IN  /\ outcome.kind = "none"
            /\ root_domain = _get_root_domain(domain)
            /\ IF k >= 0 /\ record_name = SubSeq(record_name, 1, k) \o <<Dot>> \o root_domain
               THEN subdomain = SubSeq(record_name, 1, k)
               ELSE IF record_name = root_domain THEN subdomain = <<"@">>
               ELSE subdomain = record_name

C9_Witness ==
    /\ pc = "import_models" /\ op = "del_txt_record"
    /\ root_domain = <<"a", Dot, "a">>
    /\ record_name = <<"a", Dot, "a", Dot, "a">>
    /\ subdomain = <<"a">>

\* a name made of non-empty labels of letters
WellFormed(s) ==
    /\ Len(s) > 0 /\ s[1] # Dot /\ s[Len(s)] # Dot
    /\ \A i \in 1..Len(s) : s[i] # "@"
    /\ \A i \in 1..(Len(s) - 1) : ~(s[i] = Dot /\ s[i + 1] = Dot)

\* C10 as stated, for a domain and a record name of non-empty labels of
\* letters: relative name + "." + zone is the record name, except that with the
\* relative name "@" the record name is the zone.
C10_Original ==
    (pc = "import_models" /\ WellFormed(domain) /\ WellFormed(record_name)) =>
        IF subdomain = <<"@">> THEN record_name = root_domain
        ELSE subdomain \o <<Dot>> \o root_domain = record_name

\* C10 as amended: for a record name that ends with "." + zone, relative name +
\* "." + zone is the record name; for the zone itself the relative name is "@".
C10_RelativeNameInvariant ==
    pc = "import_models" =>
        /\ endswith(record_name, <<Dot>> \o root_domain) =>
              subdomain \o <<Dot>> \o root_domain = record_name
        /\ record_name = root_domain => subdomain = <<"@">>

C10_Witness ==
    /\ pc = "import_models" /\ op = "del_txt_record"
    /\ root_domain = <<"a", Dot, "a">>
    /\ record_name = <<"@", Dot, "a", Dot, "a">>
    /\ subdomain = <<"@">>

(***************************************************************************)
(* C11..C14: the requests of one operation and what they leave alone       *)
(* (Spec).                                                                 *)
(***************************************************************************)
\* the zone of a domain, said without the code: the domain itself when it has
\* fewer than two dots, otherwise what follows its last dot but one
ZoneOf(d) ==
    LET dots == {i \in 1..Len(d) : d[i] = Dot}
        last == CHOOSE i \in dots : \A j \in dots : j <= i
        prev == CHOOSE i \in dots \ {last} : \A j \in dots \ {last} : j <= i
    IN  IF Cardinality(dots) < 2 THEN d ELSE SubSeq(d, prev + 1, Len(d))

\* C11: every provider call of one add_txt_record (list, delete, update) and
\* of one del_txt_record (delete) carries the same zone argument, the zone of
\* the domain the operation was given.
C11_OneZone ==
    op \in {"add_txt_record", "del_txt_record"} =>
        \A i \in 1..Len(calls) : calls[i].zone = ZoneOf(domain)

C11_Witness ==
    /\ AddDone /\ Len(calls) = 3
    /\ Gets = {1} /\ Deletes = {2} /\ Updates = {3}
    /\ domain = <<"s", Dot, "b", Dot, "c">>
    /\ \A i \in 1..3 : calls[i].zone = <<"b", Dot, "c">>

\* C12: the update request of add_txt_record(domain, record_name,
\* record_content, record_ttl) goes to the zone of the domain and describes
\* exactly one record: the relative name of record_name in that zone, type
\* TXT, the ttl given, and the one value record_content.  With domain s.b.c,
\* record name x.s.b.c and ttl 300 the listing goes to zone b.c and the
\* record created is named x.s.
C12_CreateRequest ==
    /\ \A j \in Updates :
          /\ calls[j].zone = ZoneOf(domain)
          /\ calls[j].request.zone =
                <<[name |-> add_subdomain(record_name, ZoneOf(domain)), type |-> "TXT",
                   ttl |-> record_ttl, records |-> <<[content |-> record_content]>>]>>
    /\ ( /\ op = "add_txt_record"
         /\ domain = <<"s", Dot, "b", Dot, "c">>
         /\ record_name = <<"x", Dot, "s", Dot, "b", Dot, "c">> ) =>
          /\ \A i \in Gets : calls[i].zone = <<"b", Dot, "c">>
          /\ \A j \in Updates :
                /\ Len(calls[j].request.zone) = 1
                /\ calls[j].request.zone[1].name = <<"x", Dot, "s">>

C12_Witness ==
    /\ AddDone /\ entry = "direct"
    /\ domain = <<"s", Dot, "b", Dot, "c">>
    /\ record_name = <<"x", Dot, "s", Dot, "b", Dot, "c">>
    /\ record_ttl = 300 /\ record_content = "t2"
    /\ \E j \in Updates :
          /\ calls[j].ok
          /\ calls[j].request.zone =
                <<[name |-> <<"x", Dot, "s">>, type |-> "TXT", ttl |-> 300,
                   records |-> <<[content |-> "t2"]>>]>>

\* the relative name the running operation targets
OpTargetName ==
    IF op = "del_txt_record" THEN del_subdomain(record_name, TargetZone) ELSE TargetName

\* record r of zone z is not a TXT record at the target of the running operation
OffTarget(z, r) == z # TargetZone \/ r.name # OpTargetName \/ r.type # "TXT"

\* C13: an operation leaves every record alone that differs from its target
\* in zone, name or type: records of other types at the same name, records at
\* other names and records of other zones are as they were when it started.
C13_Frame ==
    \A z \in Zones :
        \A r \in DOMAIN dns[z] \cup DOMAIN dns_before[z] :
            OffTarget(z, r) => CopiesIn(r, dns[z]) = CopiesIn(r, dns_before[z])

C13_Witness ==
    /\ AddDone /\ outcome.kind = "returned"
    /\ TargetZone = <<"b", Dot, "c">> /\ TargetName = <<"@">>
    /\ Deletes # {} /\ Failed(Deletes) = {}
    /\ dns # dns_before
    /\ \E r \in DOMAIN dns[TargetZone] :
          r.name = <<"@">> /\ r.type = "A" /\ r \in DOMAIN dns_before[TargetZone]

\* the operation ended on a failed import (of the API client or of the models)
ImportFailed == outcome.exc # <<>> /\ outcome.exc[Len(outcome.exc)] = "ImportError"

\* C14 as stated: one add_txt_record issues the list request exactly once and
\* the delete and the update at most once each; one del_txt_record issues the
\* delete at most once.
C14_Original ==
    /\ AddDone =>
          Cardinality(Gets) = 1 /\ Cardinality(Deletes) <= 1 /\ Cardinality(Updates) <= 1
    /\ DelDone => Cardinality(Deletes) <= 1

\* C14 as amended: no provider call is repeated.  One add_txt_record issues
\* the list request at most once (exactly once unless an import failed before
\* it) and the delete and the update at most once each; one del_txt_record
\* issues the delete at most once.
C14_NoRetry ==
    /\ op = "add_txt_record" =>
          /\ Cardinality(Gets) <= 1
          /\ Cardinality(Deletes) <= 1
          /\ Cardinality(Updates) <= 1
    /\ (AddDone /\ ~ImportFailed) => Cardinality(Gets) = 1
    /\ (AddDone /\ ImportFailed) => calls = <<>>
    /\ op = "del_txt_record" => Cardinality(Deletes) <= 1

C14_Witness ==
    /\ AddDone /\ Len(calls) = 3
    /\ Failed(Gets) = {} /\ Failed(Deletes) = Deletes /\ Failed(Updates) = Updates
    /\ Cardinality(Gets) = 1 /\ Cardinality(Deletes) = 1 /\ Cardinality(Updates) = 1

(***************************************************************************)
(* C15..C18: the Authenticator (Spec).                                     *)
(***************************************************************************)
\* C15 as stated: _perform(domain, validation_name, validation) calls
\* add_txt_record once, with its three arguments unchanged and the ttl 60.
C15_Original ==
    entry = "_perform" =>
        /\ op = "add_txt_record"
        /\ <<domain, record_name, record_content, record_ttl>> = request \o <<60>>

\* C15 as amended: with credentials loaded, _perform(domain, validation_name,
\* validation) runs add_txt_record with its three arguments unchanged and the
\* ttl 60, and raises exactly when add_txt_record raises (an import, the
\* listing or the update failed); without credentials it raises before any
\* add_txt_record.
C15_PerformDelegates ==
    /\ (entry = "_perform" /\ credentials # "None") =>
          /\ op = "add_txt_record"
          /\ <<domain, record_name, record_content, record_ttl>> = request \o <<60>>
          /\ \A j \in Updates : calls[j].request.zone[1].ttl = 60
    /\ (entry = "_perform" /\ AddDone) =>
          (outcome.kind = "raised" <=>
              (ImportFailed \/ Failed(Gets) # {} \/ Failed(Updates) # {}))
    /\ (entry = "_perform" /\ credentials = "None") =>
          /\ op = "_perform" /\ pc = "idle" /\ calls = <<>>
          /\ outcome.kind = "raised"

C15_Witness ==
    /\ entry = "_perform" /\ AddDone /\ outcome.kind = "returned"
    /\ request = <<domain, record_name, record_content>>
    /\ record_ttl = 60
    /\ \E j \in Updates : calls[j].ok /\ calls[j].request.zone[1].ttl = 60

\* C16: what del_txt_record asks of the provider and what it leaves in the
\* zones is given by the domain, the record name, the zones before and the
\* provider's answer alone; record_content occurs in neither, so two runs that
\* differ only in it issue the same request (same zone, same name and type
\* filter) and leave the same zones: every TXT record at the name is removed
\* whatever its content, or nothing is.
C16_TokenUnused ==
    op = "del_txt_record" =>
        LET zone == ZoneOf(domain)
            name == del_subdomain(record_name, zone)
            left == {r \in DOMAIN dns_before[zone] : ~(r.name = name /\ r.type = "TXT")}
        IN  /\ \A i \in 1..Len(calls) :
                  /\ calls[i].api = "delete_dns_records_v1"
                  /\ calls[i].zone = zone
                  /\ calls[i].request = [filters |-> <<[name |-> name, type |-> "TXT"]>>]
            /\ dns = IF \E i \in 1..Len(calls) : calls[i].ok
                     THEN [dns_before EXCEPT ![zone] = [r \in left |-> dns_before[zone][r]]]
                     ELSE dns_before

C16_Witness ==
    /\ DelDone /\ entry = "_cleanup" /\ Len(calls) = 1 /\ calls[1].ok
    /\ record_content = "t2"
    /\ \E r \in DOMAIN dns_before[TargetZone] :
          /\ r.name = OpTargetName /\ r.type = "TXT" /\ r.content = "t1"
          /\ r \notin DOMAIN dns[TargetZone]

\* C17: _perform or _cleanup on an Authenticator whose credentials are not
\* loaded ends in _get_hostinger_client with errors.Error ("Plugin has not
\* been prepared."): no _HostingerClient is constructed, no provider call is
\* issued and the zones are untouched.
C17_NotPrepared ==
    [][((_perform \/ _cleanup) /\ credentials = "None") =>
          /\ pc' = "idle"
          /\ outcome' = [kind |-> "raised", exc |-> <<"Error">>]
          /\ client' = client
          /\ calls' = <<>>
          /\ dns' = dns]_vars

C17_Witness ==
    /\ pc = "idle" /\ entry = "_cleanup" /\ op = "_cleanup"
    /\ credentials = "None"
    /\ request = <<<<"s", Dot, "b", Dot, "c">>, <<"x", Dot, "s", Dot, "b", Dot, "c">>, "t1">>
    /\ outcome = [kind |-> "raised", exc |-> <<"Error">>]
    /\ client = NoClient
    /\ calls = <<>>

\* C18: _setup_credentials raises PluginError exactly when the API token is
\* missing or empty and loads every other token; when it raises, no provider
\* call is issued and the zones are untouched; an empty token is never
\* loaded, and an Authenticator that has loaded no token issues no provider
\* call from _perform or _cleanup either.
C18_Validation ==
    /\ (pc = "idle" /\ op = "_setup_credentials") =>
          /\ outcome.kind = "raised" <=> request[1] \in {"None", ""}
          /\ outcome.kind = "raised" =>
                /\ outcome.exc = <<"PluginError">>
                /\ calls = <<>>
                /\ dns = dns_before
          /\ outcome.kind = "returned" => credentials = request[1]
    /\ credentials # ""
    /\ (credentials = "None" /\ entry \in {"setup", "_perform", "_cleanup"}) => calls = <<>>

C18_Witness ==
    /\ pc = "idle" /\ op = "_setup_credentials"
    /\ request = <<"">>
    /\ outcome = [kind |-> "raised", exc |-> <<"PluginError">>]
    /\ credentials = "None"
    /\ calls = <<>>

(***************************************************************************)
(* C19..C20: the life of the API client (Spec).                            *)
(***************************************************************************)
\* C19: the API client of one _HostingerClient has a two-state life.  A new
\* _HostingerClient starts without one; the first _get_api_client that
\* succeeds constructs it; once there it is never dropped, and every later
\* _get_api_client of that _HostingerClient returns it and constructs no
\* other, so one _HostingerClient constructs at most one.
C19_Lifecycle ==
    [][IF pc = "idle" /\ client' # client
       THEN client'._api_client = "None" /\ client'.built = 0
       ELSE /\ client._api_client # "None" => client' = client
            /\ client' # client =>
                  /\ pc = "get_api_client" /\ pc' = "resolve_names"
                  /\ client'._api_client = "DNSZoneApi"
                  /\ client'.built = 1
            /\ (pc = "get_api_client" /\ pc' = "resolve_names") =>
                  client'._api_client = "DNSZoneApi" /\ client'.built = 1]_vars

C19_Witness ==
    /\ entry = "direct" /\ op = "add_txt_record"
    /\ repeated = "returned"
    /\ pc = "resolve_names"
    /\ client._api_client = "DNSZoneApi" /\ client.built = 1

\* C20 as stated, for a _perform that repeats a _perform that returned (and so
\* had an API client constructed): the API client is reused, the later call's
\* _get_api_client constructs nothing.
C20_Original ==
    [][(entry = "_perform" /\ repeated = "returned" /\ pc = "get_api_client") =>
          client' = client]_vars

\* C20 as amended: the calls of one Authenticator share the loaded credentials
\* and nothing else.  Every _perform and _cleanup with credentials loaded
\* constructs a new _HostingerClient from them, without an API client, and
\* within the call the API client is constructed at most once, on first use.
C20_ClientPerCall ==
    [][/\ ((_perform \/ _cleanup) /\ credentials # "None") =>
             client' = NewClient(credentials) /\ pc' = "get_api_client"
       /\ (entry \in {"_perform", "_cleanup"} /\ pc = "get_api_client") =>
             client.built = 0 /\ client'.built <= 1
       /\ (entry \in {"_perform", "_cleanup"} /\ pc \notin {"idle", "get_api_client"}) =>
             client' = client]_vars

C20_Witness ==
    /\ entry = "_perform" /\ op = "add_txt_record"
    /\ repeated = "returned"
    /\ pc = "resolve_names"
    /\ client = [NewClient(credentials) EXCEPT !._api_client = "DNSZoneApi", !.built = 1]

\* C21: when the import of the provider library fails, _get_api_client
\* raises PluginError (from the ImportError) in that very call, issues no
\* provider call and leaves _api_client None; a _get_api_client on a client
\* whose _api_client is None never hands out that None: it constructs the API
\* client or fails again.
C21_ImportFailure ==
    [][(pc = "get_api_client" /\ client._api_client = "None") =>
          \/ /\ pc' = "idle"
             /\ client' = client
             /\ calls' = <<>>
             /\ op = "add_txt_record" =>
                   outcome' = [kind |-> "raised",
                               exc |-> <<"PluginError", "PluginError", "ImportError">>]
             /\ op = "del_txt_record" => outcome'.kind = "returned"
          \/ /\ pc' = "resolve_names"
             /\ client'._api_client = "DNSZoneApi"
             /\ client'.built = client.built + 1]_vars

\* two add_txt_record in a row on one _HostingerClient that both failed at the
\* import: the second attempted the construction again
C21_Witness ==
    /\ AddDone /\ entry = "direct"
    /\ repeated = "raised"
    /\ ImportFailed
    /\ client.made /\ client._api_client = "None" /\ client.built = 0
    /\ calls = <<>>

(***************************************************************************)
(* C22..C24: what the operations leave alone and what they ask for (Spec). *)
(***************************************************************************)
\* C22: the credentials change only in a _setup_credentials that returns,
\* which assigns the token it validated; no _perform, no _cleanup and no step
\* of add_txt_record or del_txt_record, failing or not, changes them.
C22_CredentialsFrame ==
    [][credentials' # credentials =>
          /\ pc = "idle" /\ pc' = "idle"
          /\ op' = "_setup_credentials"
          /\ outcome' = Returned
          /\ credentials' = request'[1]]_vars

C22_Witness ==
    /\ entry = "_cleanup" /\ DelDone
    /\ Failed(Deletes) # {}
    /\ credentials = "tok"
    /\ client.api_token = "tok"

\* the records listed hold a TXT record at the relative name of the record name
ListedConflict ==
    \E z \in zone_records :
        z.name = add_subdomain(record_name, ZoneOf(domain)) /\ z.type = "TXT"

\* C23: a finished add_txt_record has issued the conflict delete if and only
\* if its listing succeeded and held a record with the relative name and type
\* TXT; a listed record of another type at that name, or a TXT record at
\* another name, triggers none; the delete issued has the one filter
\* (relative name, TXT).
C23_ConflictDeleteIff ==
    /\ AddDone =>
          (Deletes # {} <=> (Gets # {} /\ Failed(Gets) = {} /\ ListedConflict))
    /\ op = "add_txt_record" =>
          \A i \in Deletes :
              /\ i > 1 /\ calls[i - 1].api = "get_dns_records_v1" /\ calls[i - 1].ok
              /\ ListedConflict
              /\ calls[i].request =
                    [filters |-> <<[name |-> add_subdomain(record_name, ZoneOf(domain)),
                                    type |-> "TXT"]>>]

\* the listing holds an A record at the relative name and no TXT record
\* there: no delete, the update follows the listing
C23_Witness ==
    /\ AddDone /\ outcome.kind = "returned"
    /\ TargetName = <<"@">>
    /\ \E z \in zone_records : z.name = TargetName /\ z.type = "A"
    /\ ~ListedConflict
    /\ Deletes = {} /\ Gets = {1} /\ Updates = {2}

\* C24: del_txt_record asks the provider for one thing only: at most one
\* delete, with the one filter (relative name, TXT), on the zone of the
\* domain, never a listing or an update; and it does not look first: once the
\* request is built the delete is issued whatever the zone holds.
C24_DeleteOnly ==
    [][(op' = "del_txt_record") =>
          /\ Len(calls') <= 1
          /\ \A i \in 1..Len(calls') :
                /\ calls'[i].api = "delete_dns_records_v1"
                /\ calls'[i].zone = ZoneOf(domain')
                /\ Len(calls'[i].request.filters) = 1
                /\ calls'[i].request.filters[1] =
                      [name |-> del_subdomain(record_name', ZoneOf(domain')), type |-> "TXT"]
          /\ zone_records' = {} /\ existing_acme' = {}
          /\ (pc = "delete_dns_records" /\ pc' # pc) => Len(calls') = 1]_vars

\* a delete issued, and answered, on a zone that held no TXT record at the name
C24_Witness ==
    /\ DelDone /\ Len(calls) = 1 /\ calls[1].ok
    /\ \A r \in DOMAIN dns_before[TargetZone] : ~(r.name = OpTargetName /\ r.type = "TXT")
    /\ dns = dns_before

(***************************************************************************)
(* C26: the target of del_txt_record against that of add_txt_record        *)
(* (SpecNames).                                                            *)
(***************************************************************************)
\* C26: for every domain and record name, the record name outside the zone
\* and the record name that is the zone included, del_txt_record and
\* add_txt_record compute the same zone and the same relative name, so the
\* filter (relative name, TXT) of the one names the record the other creates.
C26_SameTarget ==
    pc = "import_models" =>
        /\ root_domain = ZoneOf(domain)
        /\ add_subdomain(record_name, root_domain) = del_subdomain(record_name, root_domain)
        /\ subdomain = add_subdomain(record_name, root_domain)
        /\ del_delete_request(subdomain).filters =
              <<[name |-> update_request(subdomain, "t1", ttl).zone[1].name,
                 type |-> update_request(subdomain, "t1", ttl).zone[1].type]>>

\* a record name outside the zone, kept as it is by del_txt_record
C26_Witness ==
    /\ pc = "import_models" /\ op = "del_txt_record"
    /\ domain = <<"a", Dot, "a">>
    /\ root_domain = <<"a", Dot, "a">>
    /\ record_name = <<"a", Dot, "a", Dot>>
    /\ subdomain = record_name

(***************************************************************************)
(* C25, C27, C28: what add_txt_record and del_txt_record leave in the      *)
(* zones (Spec).                                                           *)
(***************************************************************************)
\* C25: when an add_txt_record (through _perform or direct) returned and the
\* del_txt_record that follows it with the same domain, record name and
\* content had its delete answered, the zone holds no TXT record at the
\* relative name and every other record of every zone is as it was before the
\* add_txt_record.
C25_TeardownSymmetric ==
    (DelDone /\ created.done /\ Deletes # {} /\ Failed(Deletes) = {}) =>
        /\ TxtCount(ZoneOf(domain), add_subdomain(record_name, ZoneOf(domain))) = 0
        /\ \A z \in Zones :
              \A r \in DOMAIN dns[z] \cup DOMAIN created.dns[z] :
                  ~( /\ z = ZoneOf(domain)
                     /\ r.name = add_subdomain(record_name, ZoneOf(domain))
                     /\ r.type = "TXT" ) =>
                      CopiesIn(r, dns[z]) = CopiesIn(r, created.dns[z])

\* a _cleanup after its _perform, on a zone with an A record at the name the
\* challenge used
C25_Witness ==
    /\ DelDone /\ entry = "_cleanup" /\ created.done
    /\ Deletes # {} /\ Failed(Deletes) = {}
    /\ OpTargetName = <<"@">>
    /\ dns = created.dns
    /\ dns # dns_before
    /\ \E r \in DOMAIN dns[TargetZone] : r.name = <<"@">> /\ r.type = "A"

\* C27: an add_txt_record whose provider calls all succeeded leaves exactly
\* one TXT record at its zone and relative name, holding its content; a TXT
\* record that was there with another content (the token of an earlier
\* challenge at the same validation name) is gone, so two tokens are never
\* there together.
C27_LatestContent ==
    (AddDone /\ outcome.kind = "returned" /\ Failed(1..Len(calls)) = {}) =>
        LET zone == ZoneOf(domain)
            name == add_subdomain(record_name, zone)
        IN  /\ TxtCount(zone, name) = 1
            /\ \A r \in DOMAIN dns[zone] :
                  (r.name = name /\ r.type = "TXT") =>
                      r.content = record_content /\ r.ttl = record_ttl

\* the second of two challenges at one validation name, with another token
C27_Witness ==
    /\ AddDone /\ entry = "_perform" /\ AllCallsOk
    /\ record_content = "t2"
    /\ Deletes # {}
    /\ \E r \in DOMAIN dns_before[TargetZone] :
          r.name = TargetName /\ r.type = "TXT" /\ r.content = "t1" /\ r.ttl = ttl
    /\ \A r \in TxtAt(TargetZone, TargetName) : r.content = "t2"

\* the TXT records at the target the operation started with
TxtBefore ==
    {r \in DOMAIN dns_before[TargetZone] : r.name = TargetName /\ r.type = "TXT"}

\* C28 as stated: with a conflicting TXT record listed, the conflict delete
\* answered and the update failed, add_txt_record raises and no TXT record is
\* left at the relative name; an add_txt_record that raised has left the zones
\* unchanged only when it failed at the listing or before.
C28_Original ==
    /\ (AddDone /\ Deletes # {} /\ Failed(Deletes) = {} /\ Failed(Updates) # {}) =>
          /\ outcome = ProviderError
          /\ TxtCount(TargetZone, TargetName) = 0
    /\ (AddDone /\ outcome.kind = "raised" /\ dns = dns_before) => Updates = {}

\* C28 as amended: in that run add_txt_record raises, no TXT record is left at
\* the relative name and the record deleted is not restored; an
\* add_txt_record that raised has left the zones unchanged exactly when no
\* conflict delete was answered before the failure: it failed at the listing
\* or before, or at the update after no delete or after a failed one.
C28_NotAtomic ==
    /\ (AddDone /\ Deletes # {} /\ Failed(Deletes) = {} /\ Failed(Updates) # {}) =>
          /\ outcome = ProviderError
          /\ TxtCount(TargetZone, TargetName) = 0
          /\ TxtBefore # {}
          /\ dns # dns_before
    /\ (AddDone /\ outcome.kind = "raised") =>
          (dns = dns_before <=> Failed(Deletes) = Deletes)
    /\ (AddDone /\ outcome.kind = "raised" /\ Updates = {}) => dns = dns_before

C28_Witness ==
    /\ AddDone /\ outcome = ProviderError
    /\ Len(calls) = 3 /\ calls[1].ok /\ calls[2].ok /\ ~calls[3].ok
    /\ TxtBefore # {}
    /\ TxtCount(TargetZone, TargetName) = 0

(***************************************************************************)
(* C29: one operation from its call to its end, every step of it taken     *)
(* (SpecRun).                                                               *)
(***************************************************************************)
\* an operation just called: add_txt_record or del_txt_record, through the
\* Authenticator (a new client, the ttl of the Authenticator) or directly (a
\* client that may have its API client already), on each of the initial zones
InitRun ==
    \E o \in {"add_txt_record", "del_txt_record"}, direct \in BOOLEAN,
       d \in Domains, rn \in RecordNames, c \in Contents, d0 \in InitialDns,
       cached \in BOOLEAN :
        /\ (cached => direct)
        /\ credentials = "tok"
        /\ client = IF cached
                    THEN [NewClient("tok") EXCEPT !._api_client = "DNSZoneApi", !.built = 1]
                    ELSE handler_client("tok", NoClient)
        /\ dns = d0
        /\ pc = "get_api_client"
        /\ op = o
        /\ entry = IF direct THEN "direct"
                   ELSE IF o = "add_txt_record" THEN "_perform" ELSE "_cleanup"
        /\ request = IF direct /\ o = "add_txt_record" THEN <<d, rn, c, test_ttl>>
                     ELSE <<d, rn, c>>
        /\ domain = d /\ record_name = rn /\ record_content = c
        /\ record_ttl = IF o = "del_txt_record" THEN 0
                        ELSE IF direct THEN test_ttl ELSE perform_call(d, rn, c)[4]
        /\ root_domain = <<>> /\ subdomain = <<>> /\ zone_records = {} /\ existing_acme = {}
        /\ calls = <<>>
        /\ outcome = NoOutcome
        /\ dns_before = dns
        /\ repeated = "no"
        /\ created = [done |-> FALSE, dns |-> dns]

\* the steps of the operation; the program runs them one after the other
NextRun ==
    \/ _get_api_client
    \/ resolve_names
    \/ import_models
    \/ get_dns_records
    \/ delete_existing
    \/ update_dns_records
    \/ delete_dns_records

SpecRun == InitRun /\ [][NextRun]_vars /\ WF_vars(NextRun)

\* C29: every add_txt_record and del_txt_record ends, returned or raised, when
\* each of its provider calls returns or fails; add_txt_record has issued at
\* most three provider calls by then (list, delete, update, each once) and
\* del_txt_record at most one.
C29_Terminates ==
    /\ (pc # "idle") ~> (pc = "idle" /\ outcome.kind \in {"returned", "raised"})
    /\ [](op = "add_txt_record" =>
            /\ Len(calls) <= 3
            /\ Cardinality(Gets) <= 1 /\ Cardinality(Deletes) <= 1 /\ Cardinality(Updates) <= 1)
    /\ [](op = "del_txt_record" => Len(calls) <= 1)

\* an add_txt_record that ended after its three calls
C29_Witness ==
    /\ AddDone /\ outcome.kind = "returned"
    /\ Len(calls) = 3
    /\ calls[1].api = "get_dns_records_v1"
    /\ calls[2].api = "delete_dns_records_v1"
    /\ calls[3].api = "update_dns_records_v1"

====
